---- MODULE Spec2Model ----
(***************************************************************************)
(* Model of src/app.py: the receipt normaliser parse_receipt, the policy   *)
(* reader extract_text_from_pdf, and the Streamlit session of main(): the  *)
(* draft (st.session_state.draft_fields), the committed line items         *)
(* (st.session_state.line_items) and the compliance request built on       *)
(* "Submit Expense Report".                                                *)
(*                                                                         *)
(* Python values are tagged records, so that None, str, float, date and    *)
(* SDK objects can be told apart.  A str is a sequence of symbols: the     *)
(* texts that are parsed (dates, amounts) are spelled one character per    *)
(* symbol, fixed literals of the program (dict keys, prompts) are one      *)
(* symbol each.                                                            *)
(***************************************************************************)
EXTENDS Integers, Sequences, FiniteSets, TLC

VARIABLES
    session_state,  \* st.session_state: a function over the keys present
    today,          \* the day date.today() returns, counted from the session's first
    result,         \* the AnalyzeResult the last parse_receipt call got
    parsed_result,  \* what that call returned, or the exception it raised
    listing,        \* the "Current Line Items" rendered by the last run
    filtered_line_items, \* the "Final JSON" rendered by the last run
    messages,       \* the messages handed to the review service
    op,             \* the interaction the last script run served
    merged_raw      \* history: receipt_file_content merged since the last commit

vars == <<session_state, today, result, parsed_result, listing,
          filtered_line_items, messages, op, merged_raw>>

-----------------------------------------------------------------------------
(* Bounds *)

MaxItems == 3       \* commits per session
MaxDay == 1         \* days a session may span

-----------------------------------------------------------------------------
(* Python values *)

None == [type |-> "NoneType"]

Str(cs) == [type |-> "str", chars |-> cs]

Float(t) == [type |-> "float", tenths |-> t]

Date(y, m, d) == [type |-> "date", year |-> y, month |-> m, day |-> d]

AddressValue(pc) == [type |-> "AddressValue", postal_code |-> pc]

DocumentField(vs, c, vcr, va) ==
    [type |-> "DocumentField", value_string |-> vs, content |-> c,
     value_country_region |-> vcr, value_address |-> va]

Raise(e) == [type |-> "raise", exc |-> e]

\* Python truth value: None, "" and 0.0 are false, every other value is true.
Truthy(v) ==
    CASE v.type = "NoneType" -> FALSE
      [] v.type = "str" -> v.chars # <<>>
      [] v.type = "float" -> v.tenths # 0
      [] OTHER -> TRUE

\* dict.get(key): the value, or None when the key is missing.
Get(d, k) == IF k \in DOMAIN d THEN d[k] ELSE None

Digits == <<"0", "1", "2", "3", "4", "5", "6", "7", "8", "9">>

IsDigit(c) == \E i \in 1..10 : Digits[i] = c

DigitValue(c) == (CHOOSE i \in 1..10 : Digits[i] = c) - 1

DigitChar(n) == Digits[n + 1]

IsLeap(y) == (y % 4 = 0 /\ y % 100 # 0) \/ y % 400 = 0

DaysInMonth(y, m) ==
    CASE m \in {1, 3, 5, 7, 8, 10, 12} -> 31
      [] m \in {4, 6, 9, 11} -> 30
      [] OTHER -> IF IsLeap(y) THEN 29 ELSE 28

\* datetime.fromisoformat(s).date() on a text of ten symbols: the date when
\* the text is a calendar date spelled YYYY-MM-DD, else Raise("ValueError").
\* The date texts of the model all have ten symbols.
fromisoformat(cs) ==
    IF /\ Len(cs) = 10
       /\ cs[5] = "-" /\ cs[8] = "-"
       /\ \A i \in {1, 2, 3, 4, 6, 7, 9, 10} : IsDigit(cs[i])
    THEN LET y == 1000 * DigitValue(cs[1]) + 100 * DigitValue(cs[2])
                  + 10 * DigitValue(cs[3]) + DigitValue(cs[4])
             m == 10 * DigitValue(cs[6]) + DigitValue(cs[7])
             d == 10 * DigitValue(cs[9]) + DigitValue(cs[10])
         IN IF y >= 1 /\ m \in 1..12 /\ d >= 1 /\ d <= DaysInMonth(y, m)
            THEN Date(y, m, d)
            ELSE Raise("ValueError")
    ELSE Raise("ValueError")

\* str(date): date.isoformat(), zero padded.
isoformat(dt) ==
    << DigitChar(dt.year \div 1000), DigitChar((dt.year \div 100) % 10),
       DigitChar((dt.year \div 10) % 10), DigitChar(dt.year % 10), "-",
       DigitChar(dt.month \div 10), DigitChar(dt.month % 10), "-",
       DigitChar(dt.day \div 10), DigitChar(dt.day % 10) >>

\* str(v) for the values a draft field can hold.
PyStr(v) ==
    CASE v.type = "str" -> v
      [] v.type = "date" -> Str(isoformat(v))
      [] v.type = "float" ->
            Str(<<DigitChar((v.tenths \div 10) % 10), ".", DigitChar(v.tenths % 10)>>)
      [] OTHER -> Str(<<"<", v.type, ">">>)

-----------------------------------------------------------------------------
(* parse_receipt *)

\* to_date(field_value), nested in parse_receipt.  field_value is a field's
\* content, a str or None; a text that does not parse is returned unchanged.
to_date(field_value) ==
    IF ~Truthy(field_value) THEN None
    ELSE LET d == fromisoformat(PyStr(field_value).chars)
         IN IF d.type = "raise" THEN field_value ELSE d

\* The ternary of lines 123-125: to_date(field.content) if field else None.
field_date(field) == IF Truthy(field) THEN to_date(field.content) ELSE None

\* a + b for a str a: concatenation with a str, TypeError with anything else.
Add(a, b) ==
    IF a.type = "str" /\ b.type = "str" THEN Str(a.chars \o b.chars)
    ELSE Raise("TypeError")

\* Lines 90-97: the lodging location from the CountryRegion field.
\* value_address is an object carrying postal_code (line 101), not a str.
lodging_of(country_region, dflt) ==
    IF Truthy(country_region)
       /\ (Truthy(country_region.value_country_region)
           \/ Truthy(country_region.value_address))
    THEN IF Truthy(country_region.value_country_region)
            /\ Truthy(country_region.value_address)
         THEN Add(country_region.value_country_region,
                  country_region.value_address)
         ELSE IF Truthy(country_region.value_country_region)
              THEN country_region.value_country_region
              ELSE country_region.value_address
    ELSE dflt

\* Lines 100-102: the zip code from the MerchantAddress field.  The attribute
\* postal_code is read off value_address, which raises when that is None.
zip_of(address_field, dflt) ==
    IF ~Truthy(address_field) THEN dflt
    ELSE IF address_field.value_address.type = "NoneType"
         THEN Raise("AttributeError")
         ELSE IF Truthy(address_field.value_address.postal_code)
              THEN address_field.value_address.postal_code
              ELSE dflt

\* dates_of with the transaction date taking precedence whenever it is there.
dates_of_transaction_first(arrival_date, departure_date, transaction_date) ==
    IF Truthy(transaction_date)
    THEN [check_in |-> transaction_date, check_out |-> transaction_date]
    ELSE IF Truthy(arrival_date) /\ Truthy(departure_date)
         THEN [check_in |-> arrival_date, check_out |-> departure_date]
         ELSE [check_in |-> None, check_out |-> None]

\* Lines 127-133: the final decision on check_in and check_out.
dates_of(arrival_date, departure_date, transaction_date) ==
    IF Truthy(arrival_date) /\ Truthy(departure_date)
    THEN [check_in |-> arrival_date, check_out |-> departure_date]
    ELSE IF Truthy(transaction_date)
         THEN [check_in |-> transaction_date, check_out |-> transaction_date]
         ELSE [check_in |-> None, check_out |-> None]

\* parse_receipt, from the AnalyzeResult on (lines 60-135): the parsed_data
\* dict, or the exception that leaves the function.
parse_receipt(res) ==
    LET parsed_data == [type |-> "dict",
                        merchant_name |-> Str(<<>>),
                        estimated_amount |-> Float(0),
                        zip_code |-> Str(<<>>),
                        check_in |-> None,
                        check_out |-> None,
                        logding_location |-> Str(<<>>),
                        receipt_file_content |-> res.content]
    IN IF res.documents = <<>> THEN parsed_data
       ELSE
       LET fields == res.documents[1].fields
           merchant_field == Get(fields, "MerchantName")
           total_field == Get(fields, "Total")
           lodging == lodging_of(Get(fields, "CountryRegion"),
                                 parsed_data.logding_location)
           zip == zip_of(Get(fields, "MerchantAddress"), parsed_data.zip_code)
           dates == dates_of(field_date(Get(fields, "ArrivalDate")),
                             field_date(Get(fields, "DepartureDate")),
                             field_date(Get(fields, "TransactionDate")))
       IN IF lodging.type = "raise" THEN lodging
          ELSE IF zip.type = "raise" THEN zip
          ELSE [parsed_data EXCEPT
                  !.merchant_name =
                      IF Truthy(merchant_field) /\ Truthy(merchant_field.value_string)
                      THEN merchant_field.value_string ELSE @,
                  !.estimated_amount =
                      IF Truthy(total_field) /\ Truthy(total_field.content)
                      THEN total_field.content ELSE @,
                  !.logding_location = lodging,
                  !.zip_code = zip,
                  !.check_in = dates.check_in,
                  !.check_out = dates.check_out]

-----------------------------------------------------------------------------
(* Analysis results: what the document-analysis service can hand back *)

T_HotelX == <<"H", "o", "t", "e", "l", " ", "X">>
T_250 == <<"2", "5", "0", ".", "0", "0">>
T_US == <<"U", "S">>
T_10001 == <<"1", "0", "0", "0", "1">>
T_May1 == <<"2", "0", "2", "4", "-", "0", "5", "-", "0", "1">>
T_May3 == <<"2", "0", "2", "4", "-", "0", "5", "-", "0", "3">>
T_Feb30 == <<"2", "0", "2", "4", "-", "0", "2", "-", "3", "0">>
T_Slash == <<"0", "5", "/", "0", "1", "/", "2", "0", "2", "4">>
T_Raw1 == <<"R", "1">>
T_Raw2 == <<"R", "2">>

\* Date texts the service may return that are dates, and that are not.
ValidDateTexts == {T_May1, T_May3}
InvalidDateTexts == {T_Feb30, T_Slash}

ContentField(c) == DocumentField(None, c, None, None)

DateFieldOptions ==
    {None, ContentField(None)}
        \cup {ContentField(Str(t)) : t \in ValidDateTexts \cup InvalidDateTexts}

FieldNames == {"MerchantName", "Total", "CountryRegion", "MerchantAddress",
               "ArrivalDate", "DepartureDate", "TransactionDate"}

\* One choice per field name; None stands for a name the service left out.
\* A field carries the value attribute of its own kind only: a country/region
\* field has no value_address, an address field no value_country_region.
FieldChoices ==
    [MerchantName : {None, DocumentField(None, None, None, None),
                     DocumentField(Str(<<>>), Str(<<>>), None, None),
                     DocumentField(Str(T_HotelX), Str(T_HotelX), None, None)},
     Total : {None, ContentField(None), ContentField(Str(T_250))},
     CountryRegion : {None, DocumentField(None, Str(T_US), None, None),
                      DocumentField(None, Str(T_US), Str(T_US), None)},
     MerchantAddress : {None, DocumentField(None, Str(T_10001), None, None),
                        DocumentField(None, Str(T_10001), None, AddressValue(None)),
                        DocumentField(None, Str(T_10001), None,
                                      AddressValue(Str(T_10001)))},
     ArrivalDate : DateFieldOptions,
     DepartureDate : DateFieldOptions,
     TransactionDate : DateFieldOptions]

\* The fields dict of a document: only the names the service returned.
FieldsOf(choice) ==
    [k \in {n \in FieldNames : choice[n] # None} |-> choice[k]]

AnalyzeResult(content, documents) ==
    [type |-> "AnalyzeResult", content |-> content, documents |-> documents]

AnalysisResults ==
    {AnalyzeResult(Str(c), <<>>) : c \in {<<>>, T_Raw1}}
        \cup {AnalyzeResult(Str(c), <<[fields |-> FieldsOf(ch)]>>) :
                c \in {<<>>, T_Raw1}, ch \in FieldChoices}

-----------------------------------------------------------------------------
(* The normaliser on its own: every analysis result, one call *)

InitParse ==
    /\ session_state = <<>>
    /\ today = 0
    /\ result \in AnalysisResults
    /\ parsed_result = None
    /\ listing = <<>>
    /\ filtered_line_items = <<>>
    /\ messages = <<>>
    /\ op = [name |-> "start"]
    /\ merged_raw = Str(<<>>)

Normalize ==
    /\ op.name = "start"
    /\ parsed_result' = parse_receipt(result)
    /\ op' = [name |-> "parse_receipt"]
    /\ UNCHANGED <<session_state, today, result, listing, filtered_line_items,
                   messages, merged_raw>>

NextParse == Normalize

SpecParse == InitParse /\ [][NextParse]_vars

-----------------------------------------------------------------------------
(* extract_text_from_pdf *)

Whitespace == {" ", "\n"}

RECURSIVE lstrip(_)
lstrip(cs) ==
    IF cs # <<>> /\ Head(cs) \in Whitespace THEN lstrip(Tail(cs)) ELSE cs

RECURSIVE rstrip(_)
rstrip(cs) ==
    IF cs # <<>> /\ cs[Len(cs)] \in Whitespace
    THEN rstrip(SubSeq(cs, 1, Len(cs) - 1)) ELSE cs

\* str.strip()
strip(cs) == rstrip(lstrip(cs))

\* The loop of lines 145-147: every page's text followed by a newline.
RECURSIVE page_texts(_)
page_texts(pages) ==
    IF pages = <<>> THEN <<>>
    ELSE Head(pages) \o <<"\n">> \o page_texts(Tail(pages))

\* extract_text_from_pdf with a failure swallowed into an empty text.
extract_text_from_pdf_swallows_error(pdf) ==
    IF pdf.readable
    THEN Str(strip(page_texts(pdf.pages)))
    ELSE Str(<<>>)

\* extract_text_from_pdf: the stripped text of the pages, or, when opening or
\* reading the file raises, the text "Error: " followed by the exception.
extract_text_from_pdf(pdf) ==
    IF pdf.readable
    THEN Str(strip(page_texts(pdf.pages)))
    ELSE Str(<<"Error: ">> \o pdf.error)

-----------------------------------------------------------------------------
(* main(): the session *)

\* The keys of a line item, in the order new_item is written (lines 244-255).
ItemKeys == <<"expense_name", "expense_type", "cost_center", "merchant_name",
              "lodging_location", "check_in", "check_out", "zip_code",
              "estimated_amount", "receipt_file">>

StartDay == Date(2024, 12, 30)

NextDay(d) ==
    IF d.day < DaysInMonth(d.year, d.month) THEN Date(d.year, d.month, d.day + 1)
    ELSE IF d.month < 12 THEN Date(d.year, d.month + 1, 1)
    ELSE Date(d.year + 1, 1, 1)

RECURSIVE DayAfter(_, _)
DayAfter(d, n) == IF n = 0 THEN d ELSE DayAfter(NextDay(d), n - 1)

\* date.today()
date_today == DayAfter(StartDay, today)

\* The dict of lines 162-173 and of lines 259-270.
EmptyDraft(day) ==
    [expense_name |-> Str(<<>>),
     expense_type |-> Str(<<"Hotel/Lodging">>),
     cost_center |-> Str(<<>>),
     merchant_name |-> Str(<<>>),
     lodging_location |-> Str(<<>>),
     check_in |-> day,
     check_out |-> day,
     zip_code |-> Str(<<>>),
     estimated_amount |-> Float(0),
     receipt_file |-> Str(<<>>)]

authenticated ==
    "authenticated" \in DOMAIN session_state /\ session_state.authenticated

\* display_item without the pop: the copy, receipt content included.
display_item_keeps_receipt(item) == item

\* display_item of lines 179-180 and the comprehension of line 276: the item
\* without its receipt_file key.
display_item(item) == [k \in DOMAIN item \ {"receipt_file"} |-> item[k]]

\* Lines 176-182: what "Current Line Items" shows for a store.
DisplayView(items) == [i \in 1..Len(items) |-> display_item(items[i])]

\* populate with the dates assigned unconditionally.
populate_overwrites_dates(draft, rec) ==
    [draft EXCEPT
        !.merchant_name = rec.merchant_name,
        !.estimated_amount = rec.estimated_amount,
        !.zip_code = rec.zip_code,
        !.lodging_location = rec.logding_location,
        !.check_in = rec.check_in,
        !.check_out = rec.check_out,
        !.receipt_file = Get(rec, "receipt_file_content")]

\* Lines 228-237: the parsed record merged into the draft.
populate(draft, rec) ==
    [draft EXCEPT
        !.merchant_name = rec.merchant_name,
        !.estimated_amount = rec.estimated_amount,
        !.zip_code = rec.zip_code,
        !.lodging_location = rec.logding_location,
        !.check_in = IF Truthy(rec.check_in) THEN rec.check_in ELSE @,
        !.check_out = IF Truthy(rec.check_out) THEN rec.check_out ELSE @,
        !.receipt_file = Get(rec, "receipt_file_content")]

\* What a widget of the form returns: the text the user typed, or else the
\* draft's value, which st.text_input casts to str.
widget(draft, user, k) == IF k \in DOMAIN user THEN user[k] ELSE PyStr(draft[k])

\* new_item with the receipt content taken from nowhere.
new_item_drops_receipt(draft, user) ==
    [k \in {ItemKeys[i] : i \in 1..10} |->
        IF k = "receipt_file" THEN Str(<<>>)
        ELSE IF k \in {"check_in", "check_out"} THEN PyStr(widget(draft, user, k))
        ELSE widget(draft, user, k)]

\* new_item of lines 244-255.
new_item(draft, user) ==
    [k \in {ItemKeys[i] : i \in 1..10} |->
        IF k = "receipt_file" THEN draft.receipt_file
        ELSE IF k \in {"check_in", "check_out"} THEN PyStr(widget(draft, user, k))
        ELSE widget(draft, user, k)]

\* repr of a str value inside str(dict).
repr(v) == <<"'">> \o v.chars \o <<"'">>

RECURSIVE repr_pairs(_, _)
repr_pairs(item, i) ==
    IF i > Len(ItemKeys) THEN <<>>
    ELSE (IF i > 1 THEN <<", ">> ELSE <<>>)
            \o <<"'", ItemKeys[i], "'", ": ">> \o repr(item[ItemKeys[i]])
            \o repr_pairs(item, i + 1)

RECURSIVE repr_items(_, _)
repr_items(items, i) ==
    IF i > Len(items) THEN <<>>
    ELSE (IF i > 1 THEN <<", ">> ELSE <<>>)
            \o <<"{">> \o repr_pairs(items[i], 1) \o <<"}">>
            \o repr_items(items, i + 1)

\* str(st.session_state.line_items) of line 289.
str_line_items(items) == <<"[">> \o repr_items(items, 1) \o <<"]">>

PolicyPrompt == "Given to you is the travel manual or all the policies related to submitting expense: "
RolePrompt == "You need to act as Policy violation checker, we will provide you with the line items of the expense, based on that you need to check and get back to with possible policy violations"
ItemsPrompt == "Along with policy violation you should get back to user with suggestions. Here are the line items: "
FormatPrompt == "Always respond back in json format with keys line_item_no, policy_violations (value should be None if no policy violation is there), suggestion (if any policy violations are there)"

\* build_messages sending the items as they are displayed: receipt content blank.
build_messages_display_items(pdf_text, items) ==
    << [role |-> "system", content |-> Str(<<PolicyPrompt>> \o pdf_text.chars)],
       [role |-> "system", content |-> Str(<<RolePrompt>>)],
       [role |-> "system", content |->
            Str(<<ItemsPrompt>> \o str_line_items(
                [i \in 1..Len(items) |->
                    [items[i] EXCEPT !.receipt_file = Str(<<>>)]]))],
       [role |-> "system", content |-> Str(<<FormatPrompt>>)] >>

\* The messages of lines 286-291.
build_messages(pdf_text, items) ==
    << [role |-> "system", content |-> Str(<<PolicyPrompt>> \o pdf_text.chars)],
       [role |-> "system", content |-> Str(<<RolePrompt>>)],
       [role |-> "system", content |-> Str(<<ItemsPrompt>> \o str_line_items(items))],
       [role |-> "system", content |-> Str(<<FormatPrompt>>)] >>

\* add_line_item with a reset that forgets the receipt_file key.
add_line_item_keeps_receipt(ss, user, day) ==
    [ss EXCEPT !.line_items = Append(@, new_item(ss.draft_fields, user)),
               !.draft_fields = [EmptyDraft(day) EXCEPT
                                    !.receipt_file = ss.draft_fields.receipt_file]]

\* add_line_item putting the new item first.
add_line_item_in_front(ss, user, day) ==
    [ss EXCEPT !.line_items = <<new_item(ss.draft_fields, user)>> \o @,
               !.draft_fields = EmptyDraft(day)]

\* Lines 256-270: the new item appended, the draft reset.
add_line_item(ss, user, day) ==
    [ss EXCEPT !.line_items = Append(@, new_item(ss.draft_fields, user)),
               !.draft_fields = EmptyDraft(day)]

-----------------------------------------------------------------------------
(* Inputs of a session *)

SecretUsername == "admin"
SecretPassword == "secret"
Usernames == {"admin", "guest"}
Passwords == {"secret", "wrong"}

T_Trip == <<"T", "r", "i", "p">>
T_CC1 == <<"C", "C", "1">>
T_99 == <<"9", "9">>

\* What the user typed into the form before pressing a button: a text per
\* edited widget; the other widgets return the draft's value.
UserInputs ==
    { [k \in {} |-> None],
      [expense_name |-> Str(T_Trip), expense_type |-> Str(<<"Airfare">>),
       cost_center |-> Str(T_CC1), estimated_amount |-> Str(T_99),
       check_out |-> Str(T_Slash)] }

HotelFields ==
    [MerchantName |-> DocumentField(Str(T_HotelX), Str(T_HotelX), None, None),
     Total |-> ContentField(Str(T_250)),
     CountryRegion |-> DocumentField(None, Str(T_US), Str(T_US), None),
     MerchantAddress |-> DocumentField(None, Str(T_10001), None,
                                       AddressValue(Str(T_10001))),
     ArrivalDate |-> ContentField(Str(T_May1)),
     DepartureDate |-> ContentField(Str(T_May3))]

HotelResult == AnalyzeResult(Str(T_Raw2), <<[fields |-> HotelFields]>>)

\* A receipt whose merchant address has no address value.
BareAddressResult ==
    AnalyzeResult(Str(T_Raw1),
        <<[fields |-> [MerchantAddress |->
              DocumentField(None, Str(T_10001), None, None)]]>>)

\* The analysis results of the receipts a user uploads in a session: one
\* without a recognised document, a hotel bill, and the bare address.
SessionResults ==
    {AnalyzeResult(Str(T_Raw1), <<>>), HotelResult, BareAddressResult}

\* The policy document on disk when the report is submitted.
PolicyFiles ==
    { [readable |-> TRUE, pages |-> << <<" ", "P", "1">>, <<"P", "2", " ">> >>],
      [readable |-> FALSE, pages |-> <<>>,
       error |-> <<"no such file: 'TRAVEL PROCEDURES MANUAL 2024.pdf'">>] }

-----------------------------------------------------------------------------
(* Actions: one per interaction, each a whole run of the script *)

Init ==
    /\ session_state = <<>>
    /\ today = 0
    /\ result = None
    /\ parsed_result = None
    /\ listing = <<>>
    /\ filtered_line_items = <<>>
    /\ messages = <<>>
    /\ op = [name |-> "start"]
    /\ merged_raw = Str(<<>>)

\* Lines 12-28 and 158-184: the login form; a match sets the flag and reruns
\* the script, whose first pass through main() creates the store and the draft.
Login(username, password) ==
    /\ ~authenticated
    /\ \/ /\ username = SecretUsername /\ password = SecretPassword
          /\ session_state' = [authenticated |-> TRUE,
                               line_items |-> <<>>,
                               draft_fields |-> EmptyDraft(date_today)]
          /\ op' = [name |-> "login"]
       \/ /\ ~(username = SecretUsername /\ password = SecretPassword)
          /\ op' = [name |-> "login_failed"]
          /\ UNCHANGED session_state
    /\ UNCHANGED <<today, result, parsed_result, listing, filtered_line_items,
                   messages, merged_raw>>

\* Lines 212-240: "Parse Receipt".  upload is None when no file was chosen,
\* else the analysis result the service returns for the file.  What the user
\* typed into the form is not read on this path and is cleared by the form.
ParseReceipt(upload) ==
    /\ authenticated
    /\ listing' = DisplayView(session_state.line_items)
    /\ filtered_line_items' = <<>>
    /\ messages' = <<>>
    /\ result' = upload
    /\ IF upload = None
       THEN /\ parsed_result' = None
            /\ op' = [name |-> "parse_no_file"]
            /\ UNCHANGED <<session_state, merged_raw>>
       ELSE /\ parsed_result' = parse_receipt(upload)
            /\ IF parsed_result'.type = "raise"
               THEN /\ op' = [name |-> "parse_raised"]
                    /\ UNCHANGED <<session_state, merged_raw>>
               ELSE /\ session_state' =
                          [session_state EXCEPT
                              !.draft_fields = populate(@, parsed_result')]
                    /\ merged_raw' = parsed_result'.receipt_file_content
                    /\ op' = [name |-> "populate"]
    /\ UNCHANGED today

\* Lines 242-271: "Add This Line Item".  The listing of this run was drawn
\* before the append.
AddLineItem(user) ==
    /\ authenticated
    /\ Len(session_state.line_items) < MaxItems
    /\ listing' = DisplayView(session_state.line_items)
    /\ session_state' = add_line_item(session_state, user, date_today)
    /\ merged_raw' = Str(<<>>)
    /\ filtered_line_items' = <<>>
    /\ messages' = <<>>
    /\ result' = None
    /\ parsed_result' = None
    /\ op' = [name |-> "add"]
    /\ UNCHANGED today

\* Lines 273-293: "Submit Expense Report".
SubmitReport(pdf) ==
    /\ authenticated
    /\ listing' = DisplayView(session_state.line_items)
    /\ filtered_line_items' = DisplayView(session_state.line_items)
    /\ messages' = build_messages(extract_text_from_pdf(pdf),
                                  session_state.line_items)
    /\ result' = None
    /\ parsed_result' = None
    /\ op' = [name |-> "submit", pdf |-> pdf]
    /\ UNCHANGED <<session_state, today, merged_raw>>

\* Midnight passes: date.today() moves on.
Midnight ==
    /\ today < MaxDay
    /\ today' = today + 1
    /\ op' = [name |-> "midnight"]
    /\ UNCHANGED <<session_state, result, parsed_result, listing,
                   filtered_line_items, messages, merged_raw>>

\* A session within one day.
Next ==
    \/ \E u \in Usernames, p \in Passwords : Login(u, p)
    \/ \E upload \in {None} \cup SessionResults : ParseReceipt(upload)
    \/ \E user \in UserInputs : AddLineItem(user)
    \/ \E pdf \in PolicyFiles : SubmitReport(pdf)

Spec == Init /\ [][Next]_vars

\* A session that spans days, with fewer kinds of receipt.
NextDays ==
    \/ \E u \in Usernames, p \in Passwords : Login(u, p)
    \/ \E upload \in {None, HotelResult, BareAddressResult} : ParseReceipt(upload)
    \/ \E user \in UserInputs : AddLineItem(user)
    \/ \E pdf \in PolicyFiles : SubmitReport(pdf)
    \/ Midnight

SpecDays == Init /\ [][NextDays]_vars

-----------------------------------------------------------------------------
(* Claims about parse_receipt, checked under SpecParse *)

Normalized == op.name = "parse_receipt"

HasDocument == result.documents # <<>>

DocFields == result.documents[1].fields

HasText(name) ==
    /\ name \in DOMAIN DocFields
    /\ DocFields[name].content.type = "str"
    /\ DocFields[name].content.chars # <<>>

\* The named date field is present and its text is a date.
ValidDateField(name) ==
    HasText(name) /\ DocFields[name].content.chars \in ValidDateTexts

\* The named date field is present and its text is not a date.
InvalidDateField(name) ==
    HasText(name) /\ DocFields[name].content.chars \in InvalidDateTexts

\* The named date field is missing, or carries no text.
AbsentDateField(name) == ~HasText(name)

\* v is the date that the text cs spells.
IsDateOf(v, cs) == v.type = "date" /\ isoformat(v) = cs

\* C2: with a valid transaction date and arrival and departure each absent or
\* invalid, the record parse_receipt returns has check_in and check_out both
\* equal to the transaction date.
C2_TransactionDateWhenStayDatesUnusable ==
    ( /\ Normalized /\ parsed_result.type = "dict" /\ HasDocument
      /\ ValidDateField("TransactionDate")
      /\ AbsentDateField("ArrivalDate") \/ InvalidDateField("ArrivalDate")
      /\ AbsentDateField("DepartureDate") \/ InvalidDateField("DepartureDate") )
    => /\ IsDateOf(parsed_result.check_in, DocFields["TransactionDate"].content.chars)
       /\ IsDateOf(parsed_result.check_out, DocFields["TransactionDate"].content.chars)

\* C3: with arrival and departure both present and valid, the record
\* parse_receipt returns has check_in equal to the arrival date and check_out
\* equal to the departure date, whatever the transaction date field holds.
C3_StayDatesWin ==
    ( /\ Normalized /\ parsed_result.type = "dict" /\ HasDocument
      /\ ValidDateField("ArrivalDate")
      /\ ValidDateField("DepartureDate") )
    => /\ IsDateOf(parsed_result.check_in, DocFields["ArrivalDate"].content.chars)
       /\ IsDateOf(parsed_result.check_out, DocFields["DepartureDate"].content.chars)

\* C3 witness: arrival and departure valid and different, a valid transaction
\* date present as well, and the record carries arrival and departure.
C3_Witness ==
    /\ Normalized /\ parsed_result.type = "dict" /\ HasDocument
    /\ HasText("ArrivalDate") /\ DocFields["ArrivalDate"].content.chars = T_May1
    /\ HasText("DepartureDate") /\ DocFields["DepartureDate"].content.chars = T_May3
    /\ HasText("TransactionDate") /\ DocFields["TransactionDate"].content.chars = T_May3
    /\ parsed_result.check_in = Date(2024, 5, 1)
    /\ parsed_result.check_out = Date(2024, 5, 3)

\* C4: parse_receipt never fails: for every analysis result it returns a
\* record rather than raising.
C4_ParseReceiptNeverRaises == Normalized => parsed_result.type = "dict"

-----------------------------------------------------------------------------
(* Claims about the session *)

line_items == session_state.line_items

draft_fields == session_state.draft_fields

IsPrefix(a, b) == Len(a) <= Len(b) /\ SubSeq(b, 1, Len(a)) = a

Last(seq) == seq[Len(seq)]

\* C1: a commit appends exactly one line item to the store and leaves the
\* draft at the Empty defaults: empty texts, Hotel/Lodging, amount zero, both
\* dates today's date, no receipt content; so for every commit of a session.
C1_CommitAppendsOneAndResets ==
    [][op'.name = "add" =>
          /\ Len(line_items') = Len(line_items) + 1
          /\ IsPrefix(line_items, line_items')
          /\ draft_fields' =
                [expense_name |-> Str(<<>>),
                 expense_type |-> Str(<<"Hotel/Lodging">>),
                 cost_center |-> Str(<<>>),
                 merchant_name |-> Str(<<>>),
                 lodging_location |-> Str(<<>>),
                 check_in |-> DayAfter(StartDay, today'),
                 check_out |-> DayAfter(StartDay, today'),
                 zip_code |-> Str(<<>>),
                 estimated_amount |-> Float(0),
                 receipt_file |-> Str(<<>>)]]_vars

\* C1 witness: the third of three populate/commit cycles in a row has just
\* committed, on a later day than the session began, and the draft is blank.
C1_Witness ==
    /\ authenticated /\ op.name = "add" /\ today > 0
    /\ Len(line_items) = 3
    /\ \A i \in 1..3 : /\ line_items[i].receipt_file = Str(T_Raw2)
                        /\ line_items[i].merchant_name = Str(T_HotelX)
    /\ draft_fields.receipt_file = Str(<<>>)
    /\ draft_fields.merchant_name = Str(<<>>)
    /\ draft_fields.check_in = DayAfter(StartDay, today)

\* The store a run's "Current Line Items" was drawn from: the store at the
\* start of the run, which for a commit is the store before the append.
ListedItems ==
    IF op.name = "add" THEN SubSeq(line_items, 1, Len(line_items) - 1)
    ELSE line_items

\* view shows the items of store, in order, each without receipt_file and
\* with every other field unchanged.
IsDisplayOf(view, store) ==
    /\ Len(view) = Len(store)
    /\ \A i \in 1..Len(store) :
          /\ "receipt_file" \notin DOMAIN view[i]
          /\ DOMAIN view[i] = DOMAIN store[i] \ {"receipt_file"}
          /\ \A k \in DOMAIN view[i] : view[i][k] = store[i][k]

\* C5: every item of the store carries receipt_file; no item of the listing or
\* of the Final JSON does, and both otherwise show the store's items, field
\* for field, in the same order.
C5_DisplayViewStripsReceipt ==
    authenticated =>
        /\ \A i \in 1..Len(line_items) : "receipt_file" \in DOMAIN line_items[i]
        /\ IsDisplayOf(listing, ListedItems)
        /\ op.name = "submit" => IsDisplayOf(filtered_line_items, line_items)

\* C5 witness: a report of two items with receipt content was submitted.
C5_Witness ==
    /\ authenticated /\ op.name = "submit"
    /\ Len(line_items) = 2
    /\ line_items[1].receipt_file = Str(T_Raw2)
    /\ line_items[2].receipt_file = Str(T_Raw1)
    /\ Len(filtered_line_items) = 2 /\ Len(listing) = 2

\* C6: the store only grows at its end: the store before a step is a prefix of
\* the store after it, and a step adds at most one item.
C6_StoreAppendOnly ==
    [][authenticated =>
          /\ IsPrefix(line_items, line_items')
          /\ Len(line_items') <= Len(line_items) + 1]_vars

\* C6 witness: three different items were committed and a report submitted.
C6_Witness ==
    /\ authenticated /\ op.name = "submit"
    /\ Len(line_items) = 3
    /\ line_items[1] # line_items[2] /\ line_items[2] # line_items[3]

\* The positions of the symbol sym in the text cs, and the n-th of them.
Positions(cs, sym) == {i \in 1..Len(cs) : cs[i] = sym}

NthPosition(cs, sym, n) ==
    CHOOSE p \in Positions(cs, sym) :
        Cardinality({q \in Positions(cs, sym) : q < p}) = n - 1

\* In the text cs, the n-th occurrence of the key is followed by the quoted value.
NthValueIs(cs, key, n, value) ==
    LET p == NthPosition(cs, key, n)
    IN SubSeq(cs, p + 1, p + 4 + Len(value.chars))
            = <<"'", ": ", "'">> \o value.chars \o <<"'">>

\* C7: the request of a submission has the policy text first, the role
\* instruction second, the line items third and the response format last; the
\* line-item part is the serialisation of the whole store: one entry per
\* committed item, in commit order, each with its receipt content.
C7_RequestCarriesWholeStore ==
    (authenticated /\ op.name = "submit") =>
        /\ Len(messages) = 4
        /\ messages[1].content.chars[1] = PolicyPrompt
        /\ messages[2].content.chars = <<RolePrompt>>
        /\ messages[4].content.chars = <<FormatPrompt>>
        /\ messages[3].content.chars = <<ItemsPrompt>> \o str_line_items(line_items)
        /\ LET cs == messages[3].content.chars
           IN /\ Cardinality(Positions(cs, "{")) = Len(line_items)
              /\ Cardinality(Positions(cs, "receipt_file")) = Len(line_items)
              /\ \A i \in 1..Len(line_items) :
                    /\ NthValueIs(cs, "receipt_file", i, line_items[i].receipt_file)
                    /\ NthValueIs(cs, "expense_name", i, line_items[i].expense_name)
                    /\ NthValueIs(cs, "merchant_name", i, line_items[i].merchant_name)

\* C7 witness: a store of two items with receipt content was submitted.
C7_Witness ==
    /\ authenticated /\ op.name = "submit" /\ Len(messages) = 4
    /\ Len(line_items) = 2
    /\ line_items[1].receipt_file = Str(T_Raw1)
    /\ line_items[2].receipt_file = Str(T_Raw2)

\* C8: the item a commit appends carries the receipt content of the record
\* merged last since the previous commit, or the empty text when none was
\* merged since, whatever the user typed into the form.
C8_CommitCarriesLastMergedReceipt ==
    [][op'.name = "add" =>
          Last(line_items').receipt_file = merged_raw]_vars

\* C8 witness: a commit after two merges, with fields edited by the user,
\* carries the receipt content of the second merge.
C8_Witness ==
    /\ authenticated /\ op.name = "add"
    /\ Last(line_items).receipt_file = Str(T_Raw1)
    /\ Last(line_items).check_in = Str(T_May1)
    /\ Last(line_items).expense_name = Str(T_Trip)

\* C9: populate sets merchant_name, estimated_amount, zip_code,
\* lodging_location and the receipt content to the record's values, sets
\* check_in and check_out to the record's when the record has them and keeps
\* them otherwise, and leaves expense_name, expense_type, cost_center and the
\* store as they were.
C9_PopulateFrame ==
    [][op'.name = "populate" =>
          LET rec == parsed_result'
              old == draft_fields
              new == draft_fields'
          IN /\ DOMAIN new = DOMAIN old
             /\ new.merchant_name = rec.merchant_name
             /\ new.estimated_amount = rec.estimated_amount
             /\ new.zip_code = rec.zip_code
             /\ new.lodging_location = rec.logding_location
             /\ new.receipt_file = rec.receipt_file_content
             /\ new.check_in = IF rec.check_in # None THEN rec.check_in
                               ELSE old.check_in
             /\ new.check_out = IF rec.check_out # None THEN rec.check_out
                                ELSE old.check_out
             /\ new.expense_name = old.expense_name
             /\ new.expense_type = old.expense_type
             /\ new.cost_center = old.cost_center
             /\ line_items' = line_items
             /\ session_state'.authenticated = session_state.authenticated]_vars

\* C9 witness: a record without dates was merged into a draft that held the
\* dates of an earlier receipt, and the dates are still there.
C9_Witness ==
    /\ authenticated /\ op.name = "populate"
    /\ parsed_result.check_in = None /\ parsed_result.check_out = None
    /\ draft_fields.check_in = Date(2024, 5, 1)
    /\ draft_fields.check_out = Date(2024, 5, 3)
    /\ draft_fields.receipt_file = Str(T_Raw1)
    /\ draft_fields.merchant_name = Str(<<>>)
    /\ Len(line_items) > 0

\* C10: when the policy document cannot be read, the submission still builds
\* its request, with the text "Error: ..." where the policy text goes, and
\* changes neither the draft nor the store.
C10_UnreadablePolicyIsForwarded ==
    [][(op'.name = "submit" /\ ~op'.pdf.readable) =>
          /\ Len(messages') = 4
          /\ messages'[1].content.chars
                = <<PolicyPrompt, "Error: ">> \o op'.pdf.error
          /\ messages'[3].content.chars[1] = ItemsPrompt
          /\ session_state' = session_state]_vars

\* C10 witness: a report with a committed item and a populated draft was
\* submitted while the policy document was unreadable.
C10_Witness ==
    /\ authenticated /\ op.name = "submit" /\ ~op.pdf.readable
    /\ Len(messages) = 4
    /\ Len(line_items) > 0
    /\ draft_fields.receipt_file # Str(<<>>)

====
